---- MODULE Spec2Model ----
(***************************************************************************)
(* A model of gear's Response (response.go): the one-time header commit    *)
(* WriteHeader, the two hook chains run around it, the status/body         *)
(* normalisation, Write and respond, called from concurrent goroutines.    *)
(* Every read and every store of a field of the Response is a step of its  *)
(* own (a statement that reads a field and then stores or calls is two     *)
(* steps), so that the unsynchronised accesses to status and body          *)
(* interleave as the Go memory model lets them. The slice body is two      *)
(* words, its data pointer and its length: a store of it and a read of it  *)
(* are one step per word, in either order, so that a racing store can tear *)
(* it. The capacity word decides nothing in response.go and is left out.   *)
(***************************************************************************)
EXTENDS Integers, Sequences, FiniteSets, TLC

VARIABLES
    status,       \* Response.status
    body,         \* Response.body, its data pointer: Nil, or Some(the
                  \* bytes of the array it points to)
    bodyLen,      \* Response.body, its length
    afterHooks,   \* Response.afterHooks: the hooks run before the header commit
    endHooks,     \* Response.endHooks: the hooks run after the header commit
    ended,        \* Response.ended
    wroteHeader,  \* Response.wroteHeader
    header,       \* r.rw.Header(): key -> sequence of values
    pc,           \* per caller: the statement it is at
    ret,          \* per caller: the statements to return to
    code,         \* per caller: WriteHeader's argument (0 once it is dead)
    buf,          \* per caller: Write's argument (empty once it is dead)
    rbody,        \* per caller: the slice respond is storing or reading,
                  \* word by word (the nil slice once it is dead)
    hooksRun,     \* per caller: iterations of runHooks(afterHooks) done
    goroutines,   \* one entry per `go runHooks(r.endHooks)`: iterations done
    calls,        \* number of calls made by the handlers so far
    trace,        \* what the callers did, in order: the swap won, the
                  \* before-commit hooks run, the transport calls
    endRan,       \* the after-commit hooks run, in order (their indices)
    normIn,       \* <<status, body>> as the last status check found them
    loaded        \* per caller: the number its statement has got from a
                  \* read of the Response and not used yet (0 when dead)

vars == <<status, body, bodyLen, afterHooks, endHooks, ended, wroteHeader,
          header, pc, ret, code, buf, rbody, hooksRun, goroutines, calls,
          trace, endRan, normIn, loaded>>

----------------------------------------------------------------------------
(* Bounds of the model.                                                    *)

MaxHooks == 2     \* hooks registered per chain
MaxCalls == 2     \* calls of WriteHeader, Write and respond in one run

Callers == {1, 2}

----------------------------------------------------------------------------
(* Values.                                                                 *)

\* A []byte: the nil slice, or a slice holding bytes (possibly none).
Nil == <<>>
Some(bytes) == <<bytes>>
Bytes(b) == b[1]

\* len of a slice; len of the nil slice is 0.
LenOf(b) == IF b = Nil THEN 0 ELSE Len(Bytes(b))

\* The words of a slice a caller holds: its data pointer and its length.
Slice(b) == [ptr |-> b, len |-> LenOf(b)]

\* A byte of memory that is not the slice's own.
Unknown == -1

\* The bytes a reader of the slice (ptr, len) gets: those of the array as far
\* as it goes; through a nil pointer or past the array, memory that is not
\* the slice's.
SliceBytes(ptr, len) ==
    [k \in 1..len |->
        IF ptr # Nil /\ k <= Len(Bytes(ptr)) THEN Bytes(ptr)[k] ELSE Unknown]

HeaderContentLength == "Content-Length"

LongBody == <<72, 101, 108, 108, 111, 44, 32, 103, 101, 97, 114, 33>>

\* The arguments the handlers pass.
Codes == {0, 100, 200, 204, 999}
Bodies == {Nil, Some(<<>>), Some(LongBody)}
Bufs == {<<119>>}

\* What a before-commit hook does to the Response.
HookEffects == {[kind |-> "nop",    st |-> 0,   bd |-> Nil],
                [kind |-> "status", st |-> 304, bd |-> Nil],
                [kind |-> "body",   st |-> 0,   bd |-> Some(<<33>>)]}
EndHookEffects == {[kind |-> "nop", st |-> 0, bd |-> Nil]}

----------------------------------------------------------------------------
(* Helpers the Response calls.                                             *)

\* IsStatusCode: whether the status is a recognised HTTP status code.
IsStatusCode(s) ==
    \/ s \in 100..102
    \/ s \in 200..208 \/ s = 226
    \/ s \in 300..308
    \/ s \in 400..418 \/ s \in 421..424 \/ s \in {426, 428, 429, 431, 451}
    \/ s \in 500..508 \/ s \in {510, 511}

\* isEmptyStatus: whether the status belongs to the class that allows no body.
isEmptyStatus(s) == s \in 100..199 \/ s = 204 \/ s = 304

Digit(d) ==
    CASE d = 0 -> "0" [] d = 1 -> "1" [] d = 2 -> "2" [] d = 3 -> "3"
      [] d = 4 -> "4" [] d = 5 -> "5" [] d = 6 -> "6" [] d = 7 -> "7"
      [] d = 8 -> "8" [] d = 9 -> "9"

\* strconv.Itoa of a length (never negative): its decimal digits.
RECURSIVE Itoa(_)
Itoa(n) == IF n < 10 THEN Digit(n) ELSE Itoa(n \div 10) \o Digit(n % 10)

HeaderVary == "Vary"

\* The header keys of the model, as the handlers spell them, and their bytes.
HeaderKeys ==
    {"Accept", "Accept-Encoding", "Content-Length", "Vary", "X-Accept",
     "X-Custom", "content-length", "vary", "x-CUSTOM"}

KeyBytes(key) ==
    CASE key = "Accept" -> <<65, 99, 99, 101, 112, 116>>
      [] key = "Accept-Encoding" ->
           <<65, 99, 99, 101, 112, 116, 45, 69, 110, 99, 111, 100, 105, 110,
             103>>
      [] key = "Content-Length" ->
           <<67, 111, 110, 116, 101, 110, 116, 45, 76, 101, 110, 103, 116,
             104>>
      [] key = "Vary" -> <<86, 97, 114, 121>>
      [] key = "X-Accept" -> <<88, 45, 65, 99, 99, 101, 112, 116>>
      [] key = "X-Custom" -> <<88, 45, 67, 117, 115, 116, 111, 109>>
      [] key = "content-length" ->
           <<99, 111, 110, 116, 101, 110, 116, 45, 108, 101, 110, 103, 116,
             104>>
      [] key = "vary" -> <<118, 97, 114, 121>>
      [] key = "x-CUSTOM" -> <<120, 45, 67, 85, 83, 84, 79, 77>>

ToLower(c) == IF c \in 65..90 THEN c + 32 ELSE c
ToUpper(c) == IF c \in 97..122 THEN c - 32 ELSE c

\* The canonical form of a header key (made of letters, digits and "-"),
\* which http.Header's Get, Set, Add and Del look the key up by: the first
\* letter and every letter after a "-" in upper case, the others in lower
\* case.
CanonicalHeaderKey(key) ==
    LET s == KeyBytes(key)
        c == [k \in 1..Len(s) |->
                 IF k = 1 \/ s[k - 1] = 45 THEN ToUpper(s[k])
                                            ELSE ToLower(s[k])]
    IN  CHOOSE k \in HeaderKeys : KeyBytes(k) = c

\* http.Header.Set: the values of the key become the single value.
HeaderSet(h, key, value) ==
    LET ck == CanonicalHeaderKey(key)
    IN  [k \in DOMAIN h \cup {ck} |-> IF k = ck THEN <<value>> ELSE h[k]]

\* http.Header.Get: the first value of the key, "" when there is none.
HeaderGet(h, key) ==
    LET ck == CanonicalHeaderKey(key)
    IN  IF ck \in DOMAIN h /\ Len(h[ck]) > 0 THEN h[ck][1] ELSE ""

\* http.Header.Add: the value is appended to the values of the key.
HeaderAdd(h, key, value) ==
    LET ck == CanonicalHeaderKey(key)
    IN  [k \in DOMAIN h \cup {ck} |->
            IF k = ck
                THEN (IF ck \in DOMAIN h THEN h[ck] ELSE <<>>) \o <<value>>
                ELSE h[k]]

\* http.Header.Del: the key is removed with its values.
HeaderDel(h, key) ==
    [k \in DOMAIN h \ {CanonicalHeaderKey(key)} |-> h[k]]

\* A regular expression of the shape ^(p1|p2|...), with (?i) when fold is
\* set: its alternatives are literal prefixes.
Fold(s) == [k \in 1..Len(s) |-> ToLower(s[k])]
HasPrefix(s, p) == Len(p) <= Len(s) /\ SubSeq(s, 1, Len(p)) = p

\* regexp.MatchString on a header key.
MatchString(reg, key) ==
    LET s == KeyBytes(key)
    IN  \E p \in reg.prefixes :
            IF reg.fold THEN HasPrefix(Fold(s), Fold(p)) ELSE HasPrefix(s, p)

\* (?i)^(accept|allow|retry-after|warning|vary|access-control-allow-|
\*       x-ratelimit-)
defaultHeaderFilterReg ==
    [fold |-> TRUE,
     prefixes |->
       {<<97, 99, 99, 101, 112, 116>>,
        <<97, 108, 108, 111, 119>>,
        <<114, 101, 116, 114, 121, 45, 97, 102, 116, 101, 114>>,
        <<119, 97, 114, 110, 105, 110, 103>>,
        <<118, 97, 114, 121>>,
        <<97, 99, 99, 101, 115, 115, 45, 99, 111, 110, 116, 114, 111, 108, 45,
          97, 108, 108, 111, 119, 45>>,
        <<120, 45, 114, 97, 116, 101, 108, 105, 109, 105, 116, 45>>}]

\* A filter a caller passes: ^x- , case-sensitive (it matches no key of the
\* model), and ^X- .
LowerXReg == [fold |-> FALSE, prefixes |-> {<<120, 45>>}]
UpperXReg == [fold |-> FALSE, prefixes |-> {<<88, 45>>}]

\* runHooks: the indices (1-based) of the hooks in the order the loop calls
\* them, for a chain of n hooks: n, n-1, ..., 1.
\* The loop running upwards.
HookOrderFIFO(n) == [k \in 1..n |-> k]
HookOrder(n) == [k \in 1..n |-> n + 1 - k]

\* A hook is called: what it does to status and body (a call is one step).
HookStatus(h, s) == IF h.kind = "status" THEN h.st ELSE s
HookBody(h, b) == IF h.kind = "body" THEN h.bd ELSE b
HookBodyLen(h, n) == IF h.kind = "body" THEN LenOf(h.bd) ELSE n

\* The exported or internal operation a caller is inside of.
OpOf(t) ==
    IF pc[t] \in {"r_check", "r_write", "r_wptr", "r_wlen"}
            \/ \E k \in 1..Len(ret[t]) : ret[t][k] \in {"r_check", "r_ret"}
        THEN "respond"
    ELSE IF pc[t] \in {"w_check", "w_status", "w_set", "w_rw"}
            \/ \E k \in 1..Len(ret[t]) : ret[t][k] = "w_rw"
        THEN "Write"
    ELSE "WriteHeader"

\* An entry of the trace: what happened, a number (a status, a hook's index),
\* bytes, and the caller and the operation it happened in.
\*   swapTrue          the caller won wroteHeader.swapTrue(); n: its code
\*   afterHook         r.afterHooks[n] was called
\*   setContentLength  the commit set Content-Length
\*   rwWriteHeader     r.rw.WriteHeader(n)
\*   rwWrite           r.rw.Write(data)
\*   setStatus         the handler set r.status = n before any call
Event(ev, n, data, t) ==
    [ev |-> ev, n |-> n, data |-> data, by |-> t, op |-> OpOf(t)]

\* A caller enters a function: it will come back to the statement `back`.
Enter(t, to, back) ==
    /\ pc' = [pc EXCEPT ![t] = to]
    /\ ret' = [ret EXCEPT ![t] = <<back>> \o @]

\* A caller returns from a function. respond returns as soon as its call of
\* Write does ("r_ret").
Return(t) ==
    LET rest == IF Head(ret[t]) = "r_ret" THEN Tail(ret[t]) ELSE ret[t]
    IN  /\ pc' = [pc EXCEPT ![t] = Head(rest)]
        /\ ret' = [ret EXCEPT ![t] = Tail(rest)]

Goto(t, to) ==
    /\ pc' = [pc EXCEPT ![t] = to]
    /\ UNCHANGED ret

----------------------------------------------------------------------------
(* The state after construction: nothing set, no hook, no header, every    *)
(* caller idle.                                                            *)

Init ==
    /\ status = 0
    /\ body = Nil
    /\ bodyLen = 0
    /\ afterHooks = <<>>
    /\ endHooks = <<>>
    /\ ended = FALSE
    /\ wroteHeader = FALSE
    /\ header = <<>>
    /\ pc = [t \in Callers |-> "idle"]
    /\ ret = [t \in Callers |-> <<>>]
    /\ code = [t \in Callers |-> 0]
    /\ buf = [t \in Callers |-> <<>>]
    /\ rbody = [t \in Callers |-> Slice(Nil)]
    /\ hooksRun = [t \in Callers |-> 0]
    /\ goroutines = <<>>
    /\ calls = 0
    /\ trace = <<>>
    /\ endRan = <<>>
    /\ normIn = <<0, Nil>>
    /\ loaded = [t \in Callers |-> 0]

----------------------------------------------------------------------------
(* Hook registration, by the pipeline, before any call that may commit.    *)

After(h) ==
    /\ calls = 0
    /\ ~wroteHeader
    /\ Len(afterHooks) < MaxHooks
    /\ afterHooks' = Append(afterHooks, h)
    /\ UNCHANGED <<status, body, bodyLen, endHooks, ended, wroteHeader, header,
                   pc, ret, code, buf, rbody, hooksRun, goroutines, calls,
                   trace, endRan, normIn, loaded>>

OnEnd(h) ==
    /\ calls = 0
    /\ ~wroteHeader
    /\ Len(endHooks) < MaxHooks
    /\ endHooks' = Append(endHooks, h)
    /\ UNCHANGED <<status, body, bodyLen, afterHooks, ended, wroteHeader,
                   header, pc, ret, code, buf, rbody, hooksRun, goroutines,
                   calls, trace, endRan, normIn, loaded>>

\* The handler sets the status, once, before any call that may commit.
SetStatus(s) ==
    /\ calls = 0
    /\ ~wroteHeader
    /\ trace = <<>>
    /\ status' = s
    /\ trace' = Append(trace, [ev |-> "setStatus", n |-> s, data |-> <<>>,
                               by |-> 0, op |-> "handler"])
    /\ UNCHANGED <<body, bodyLen, afterHooks, endHooks, ended, wroteHeader,
                   header, pc, ret, code, buf, rbody, hooksRun, goroutines,
                   calls, endRan, normIn, loaded>>

----------------------------------------------------------------------------
(* The handlers call into the Response.                                    *)

\* Callers hold no state between calls and are interchangeable: of the idle
\* ones, the first makes the next call.
MayCall(t) ==
    /\ pc[t] = "idle"
    /\ calls < MaxCalls
    /\ \A u \in Callers : pc[u] = "idle" => \neg (u < t)

CallWriteHeader(t, c) ==
    /\ MayCall(t)
    /\ calls' = calls + 1
    /\ code' = [code EXCEPT ![t] = c]
    /\ pc' = [pc EXCEPT ![t] = "wh_swap"]
    /\ ret' = [ret EXCEPT ![t] = <<"idle">>]
    /\ UNCHANGED <<status, body, bodyLen, afterHooks, endHooks, ended,
                   wroteHeader, header, buf, rbody, hooksRun, goroutines,
                   trace, endRan, normIn, loaded>>

CallWrite(t, b) ==
    /\ MayCall(t)
    /\ calls' = calls + 1
    /\ buf' = [buf EXCEPT ![t] = b]
    /\ pc' = [pc EXCEPT ![t] = "w_check"]
    /\ ret' = [ret EXCEPT ![t] = <<"idle">>]
    /\ UNCHANGED <<status, body, bodyLen, afterHooks, endHooks, ended,
                   wroteHeader, header, code, rbody, hooksRun, goroutines,
                   trace, endRan, normIn, loaded>>

\* respond(status, body), from its first statement, r.body = body. A slice
\* is stored a word at a time, unsynchronised, in the order the compiler
\* chose: the call makes the first of the two stores.
CallRespond(t, c, b) ==
    /\ MayCall(t)
    /\ calls' = calls + 1
    /\ code' = [code EXCEPT ![t] = c]
    /\ rbody' = [rbody EXCEPT ![t] = Slice(b)]
    /\ ret' = [ret EXCEPT ![t] = <<"r_check", "idle">>]
    /\ \/ /\ body' = b
          /\ pc' = [pc EXCEPT ![t] = "r_len"]
          /\ UNCHANGED bodyLen
       \/ /\ bodyLen' = LenOf(b)
          /\ pc' = [pc EXCEPT ![t] = "r_ptr"]
          /\ UNCHANGED body
    /\ UNCHANGED <<status, afterHooks, endHooks, ended, wroteHeader, header,
                   buf, hooksRun, goroutines, trace, endRan, normIn, loaded>>

\* r.body = body, the second store: the data pointer; then
\* r.WriteHeader(status).
R_StorePtr(t) ==
    /\ pc[t] = "r_ptr"
    /\ body' = rbody[t].ptr
    /\ rbody' = [rbody EXCEPT ![t] = Slice(Nil)]
    /\ Goto(t, "wh_swap")
    /\ UNCHANGED <<status, bodyLen, afterHooks, endHooks, ended, wroteHeader,
                   header, code, buf, hooksRun, goroutines, calls, trace,
                   endRan, normIn, loaded>>

\* r.body = body, the second store: the length; then r.WriteHeader(status).
R_StoreLen(t) ==
    /\ pc[t] = "r_len"
    /\ bodyLen' = rbody[t].len
    /\ rbody' = [rbody EXCEPT ![t] = Slice(Nil)]
    /\ Goto(t, "wh_swap")
    /\ UNCHANGED <<status, body, afterHooks, endHooks, ended, wroteHeader,
                   header, code, buf, hooksRun, goroutines, calls, trace,
                   endRan, normIn, loaded>>

----------------------------------------------------------------------------
(* WriteHeader, statement by statement.                                    *)

\* WH_Swap without the early return: a caller that finds wroteHeader set goes
\* on with the commit.
WH_SwapNoReturn(t) ==
    /\ pc[t] = "wh_swap"
    /\ wroteHeader' = TRUE
    /\ trace' = Append(trace, Event("swapTrue", code[t], <<>>, t))
    /\ Goto(t, "wh_ended")
    /\ UNCHANGED <<status, body, bodyLen, afterHooks, endHooks, ended, header,
                   code, buf, rbody, hooksRun, goroutines, calls, endRan,
                   normIn, loaded>>

\* WH_Swap with the status stored before the flag is looked at.
WH_SwapLoserStores(t) ==
    /\ pc[t] = "wh_swap"
    /\ status' = IF code[t] > 0 THEN code[t] ELSE status
    /\ IF ~wroteHeader
         THEN /\ wroteHeader' = TRUE
              /\ trace' = Append(trace, Event("swapTrue", code[t], <<>>, t))
              /\ Goto(t, "wh_ended")
              /\ UNCHANGED code
         ELSE /\ Return(t)
              /\ code' = [code EXCEPT ![t] = 0]
              /\ UNCHANGED <<wroteHeader, trace>>
    /\ UNCHANGED <<body, bodyLen, afterHooks, endHooks, ended, header, buf,
                   rbody, hooksRun, goroutines, calls, endRan, normIn, loaded>>

\* WH_Swap with a loser that waits until the winner has made the transport
\* header commit.
WH_SwapLoserWaits(t) ==
    /\ pc[t] = "wh_swap"
    /\ IF ~wroteHeader
         THEN /\ wroteHeader' = TRUE
              /\ trace' = Append(trace, Event("swapTrue", code[t], <<>>, t))
              /\ Goto(t, "wh_ended")
              /\ UNCHANGED code
         ELSE /\ \E k \in 1..Len(trace) : trace[k].ev = "rwWriteHeader"
              /\ Return(t)
              /\ code' = [code EXCEPT ![t] = 0]
              /\ UNCHANGED <<wroteHeader, trace>>
    /\ UNCHANGED <<status, body, bodyLen, afterHooks, endHooks, ended, header,
                   buf, rbody, hooksRun, goroutines, calls, endRan, normIn,
                   loaded>>

\* if !r.wroteHeader.swapTrue() { return }
\* swapTrue is one atomic compare-and-swap of false to true.
WH_Swap(t) ==
    /\ pc[t] = "wh_swap"
    /\ IF ~wroteHeader
         THEN /\ wroteHeader' = TRUE
              /\ trace' = Append(trace, Event("swapTrue", code[t], <<>>, t))
              /\ Goto(t, "wh_ended")
              /\ UNCHANGED code
         ELSE /\ Return(t)
              /\ code' = [code EXCEPT ![t] = 0]
              /\ UNCHANGED <<wroteHeader, trace>>
    /\ UNCHANGED <<status, body, bodyLen, afterHooks, endHooks, ended, header,
                   buf, rbody, hooksRun, goroutines, calls, endRan, normIn,
                   loaded>>

\* WH_SetEnded that also starts the after-commit hooks, before the header
\* commit.
WH_SetEndedDispatching(t) ==
    /\ pc[t] = "wh_ended"
    /\ ended' = TRUE
    /\ goroutines' = IF Len(endHooks) > 0 THEN Append(goroutines, 0)
                                           ELSE goroutines
    /\ Goto(t, "wh_status")
    /\ UNCHANGED <<status, body, bodyLen, afterHooks, endHooks, wroteHeader,
                   header, code, buf, rbody, hooksRun, calls, trace, endRan,
                   normIn, loaded>>

\* r.ended.setTrue()
WH_SetEnded(t) ==
    /\ pc[t] = "wh_ended"
    /\ ended' = TRUE
    /\ Goto(t, "wh_status")
    /\ UNCHANGED <<status, body, bodyLen, afterHooks, endHooks, wroteHeader,
                   header, code, buf, rbody, hooksRun, goroutines, calls,
                   trace, endRan, normIn, loaded>>

\* WH_SetStatus without the store: the code is not in status when the hooks
\* start.
WH_SetStatusDropped(t) ==
    /\ pc[t] = "wh_status"
    /\ code' = [code EXCEPT ![t] = 0]
    /\ hooksRun' = [hooksRun EXCEPT ![t] = 0]
    /\ Goto(t, "wh_hooks")
    /\ UNCHANGED <<status, body, bodyLen, afterHooks, endHooks, ended,
                   wroteHeader, header, buf, rbody, goroutines, calls, trace,
                   endRan, normIn, loaded>>

\* WH_SetStatus storing the code whatever it is.
WH_SetStatusAlways(t) ==
    /\ pc[t] = "wh_status"
    /\ status' = code[t]
    /\ code' = [code EXCEPT ![t] = 0]
    /\ hooksRun' = [hooksRun EXCEPT ![t] = 0]
    /\ Goto(t, "wh_hooks")
    /\ UNCHANGED <<body, bodyLen, afterHooks, endHooks, ended, wroteHeader,
                   header, buf, rbody, goroutines, calls, trace, endRan,
                   normIn, loaded>>

\* if code > 0 { r.status = code }; then runHooks(r.afterHooks) starts.
WH_SetStatus(t) ==
    /\ pc[t] = "wh_status"
    /\ status' = IF code[t] > 0 THEN code[t] ELSE status
    /\ code' = [code EXCEPT ![t] = 0]
    /\ hooksRun' = [hooksRun EXCEPT ![t] = 0]
    /\ Goto(t, "wh_hooks")
    /\ UNCHANGED <<body, bodyLen, afterHooks, endHooks, ended, wroteHeader,
                   header, buf, rbody, goroutines, calls, trace, endRan,
                   normIn, loaded>>

\* One iteration of runHooks(r.afterHooks): hooks[i]().
WH_RunHook(t) ==
    /\ pc[t] = "wh_hooks"
    /\ hooksRun[t] < Len(afterHooks)
    /\ LET i == HookOrder(Len(afterHooks))[hooksRun[t] + 1]
           h == afterHooks[i]
       IN  /\ status' = HookStatus(h, status)
           /\ body' = HookBody(h, body)
           /\ bodyLen' = HookBodyLen(h, bodyLen)
           /\ trace' = Append(trace, Event("afterHook", i, <<>>, t))
    /\ hooksRun' = [hooksRun EXCEPT ![t] = @ + 1]
    /\ Goto(t, "wh_hooks")
    /\ UNCHANGED <<afterHooks, endHooks, ended, wroteHeader, header, code, buf,
                   rbody, goroutines, calls, endRan, normIn, loaded>>

\* runHooks has returned; if !IsStatusCode(r.status) ... else if ...
WH_IsStatusCode(t) ==
    /\ pc[t] = "wh_hooks"
    /\ hooksRun[t] >= Len(afterHooks)
    /\ Goto(t, IF ~IsStatusCode(status) THEN "wh_fix" ELSE "wh_empty")
    /\ hooksRun' = [hooksRun EXCEPT ![t] = 0]
    /\ normIn' = <<status, body>>
    /\ UNCHANGED <<status, body, bodyLen, afterHooks, endHooks, ended,
                   wroteHeader, header, code, buf, rbody, goroutines, calls,
                   trace, endRan, loaded>>

\* The two branches exchanged.
FixedStatusSwapped(b) == IF b # Nil THEN 421 ELSE 200

\* if r.body != nil { r.status = http.StatusOK } else { r.status = 421 }
FixedStatus(b) == IF b # Nil THEN 200 ELSE 421

\* WH_FixStatus giving up on a status that is no status code: the call
\* returns without the transport header commit.
WH_FixStatusAborts(t) ==
    /\ pc[t] = "wh_fix"
    /\ Return(t)
    /\ UNCHANGED <<status, body, bodyLen, afterHooks, endHooks, ended,
                   wroteHeader, header, code, buf, rbody, hooksRun, goroutines,
                   calls, trace, endRan, normIn, loaded>>

\* The test of r.body: the body is read and the branch is taken, which
\* fixes the status that will be stored.
WH_FixStatus(t) ==
    /\ pc[t] = "wh_fix"
    /\ loaded' = [loaded EXCEPT ![t] = FixedStatus(body)]
    /\ Goto(t, "wh_fixset")
    /\ UNCHANGED <<status, body, bodyLen, afterHooks, endHooks, ended,
                   wroteHeader, header, code, buf, rbody, hooksRun, goroutines,
                   calls, trace, endRan, normIn>>

\* The store of the branch taken: r.status = http.StatusOK, or r.status = 421.
WH_StoreFixed(t) ==
    /\ pc[t] = "wh_fixset"
    /\ status' = loaded[t]
    /\ loaded' = [loaded EXCEPT ![t] = 0]
    /\ Goto(t, "wh_clcheck")
    /\ UNCHANGED <<body, bodyLen, afterHooks, endHooks, ended, wroteHeader,
                   header, code, buf, rbody, hooksRun, goroutines, calls,
                   trace, endRan, normIn>>

\* else if isEmptyStatus(r.status) {
WH_EmptyStatus(t) ==
    /\ pc[t] = "wh_empty"
    /\ Goto(t, IF isEmptyStatus(status) THEN "wh_nil" ELSE "wh_clcheck")
    /\ UNCHANGED <<status, body, bodyLen, afterHooks, endHooks, ended,
                   wroteHeader, header, code, buf, rbody, hooksRun, goroutines,
                   calls, trace, endRan, normIn, loaded>>

\* r.body = nil }, the first of the two stores.
WH_NilBody(t) ==
    /\ pc[t] = "wh_nil"
    /\ \/ /\ body' = Nil
          /\ Goto(t, "wh_nillen")
          /\ UNCHANGED bodyLen
       \/ /\ bodyLen' = 0
          /\ Goto(t, "wh_nilptr")
          /\ UNCHANGED body
    /\ UNCHANGED <<status, afterHooks, endHooks, ended, wroteHeader, header,
                   code, buf, rbody, hooksRun, goroutines, calls, trace,
                   endRan, normIn, loaded>>

\* r.body = nil }, the second store: the data pointer.
WH_NilPtr(t) ==
    /\ pc[t] = "wh_nilptr"
    /\ body' = Nil
    /\ Goto(t, "wh_clcheck")
    /\ UNCHANGED <<status, bodyLen, afterHooks, endHooks, ended, wroteHeader,
                   header, code, buf, rbody, hooksRun, goroutines, calls,
                   trace, endRan, normIn, loaded>>

\* r.body = nil }, the second store: the length.
WH_NilLen(t) ==
    /\ pc[t] = "wh_nillen"
    /\ bodyLen' = 0
    /\ Goto(t, "wh_clcheck")
    /\ UNCHANGED <<status, body, afterHooks, endHooks, ended, wroteHeader,
                   header, code, buf, rbody, hooksRun, goroutines, calls,
                   trace, endRan, normIn, loaded>>

\* if r.body != nil {
WH_CheckBody(t) ==
    /\ pc[t] = "wh_clcheck"
    /\ Goto(t, IF body # Nil THEN "wh_clset" ELSE "wh_rw")
    /\ UNCHANGED <<status, body, bodyLen, afterHooks, endHooks, ended,
                   wroteHeader, header, code, buf, rbody, hooksRun, goroutines,
                   calls, trace, endRan, normIn, loaded>>

\* Only the last digit of the length.
ContentLengthLastDigit(n) == Digit(n % 10)

\* strconv.Itoa(len(r.body))
ContentLengthOf(n) == Itoa(n)

\* The argument of r.Set is evaluated: the length of the body is read.
WH_LenBody(t) ==
    /\ pc[t] = "wh_clset"
    /\ loaded' = [loaded EXCEPT ![t] = bodyLen]
    /\ Goto(t, "wh_clstore")
    /\ UNCHANGED <<status, body, bodyLen, afterHooks, endHooks, ended,
                   wroteHeader, header, code, buf, rbody, hooksRun, goroutines,
                   calls, trace, endRan, normIn>>

\* r.Set(HeaderContentLength, ...) } with the argument evaluated before.
WH_SetContentLength(t) ==
    /\ pc[t] = "wh_clstore"
    /\ header' = HeaderSet(header, HeaderContentLength,
                           ContentLengthOf(loaded[t]))
    /\ loaded' = [loaded EXCEPT ![t] = 0]
    /\ trace' = Append(trace, Event("setContentLength", 0, <<>>, t))
    /\ Goto(t, "wh_rw")
    /\ UNCHANGED <<status, body, bodyLen, afterHooks, endHooks, ended,
                   wroteHeader, code, buf, rbody, hooksRun, goroutines, calls,
                   endRan, normIn>>

\* The argument of r.rw.WriteHeader is evaluated: the status is read.
WH_LoadStatus(t) ==
    /\ pc[t] = "wh_rw"
    /\ loaded' = [loaded EXCEPT ![t] = status]
    /\ Goto(t, "wh_rwcall")
    /\ UNCHANGED <<status, body, bodyLen, afterHooks, endHooks, ended,
                   wroteHeader, header, code, buf, rbody, hooksRun, goroutines,
                   calls, trace, endRan, normIn>>

\* r.rw.WriteHeader(r.status), with the status read before.
WH_RwWriteHeader(t) ==
    /\ pc[t] = "wh_rwcall"
    /\ trace' = Append(trace, Event("rwWriteHeader", loaded[t], <<>>, t))
    /\ loaded' = [loaded EXCEPT ![t] = 0]
    /\ Goto(t, "wh_go")
    /\ UNCHANGED <<status, body, bodyLen, afterHooks, endHooks, ended,
                   wroteHeader, header, code, buf, rbody, hooksRun, goroutines,
                   calls, endRan, normIn>>

\* WH_Dispatch without `go`: the caller comes back only when the after-commit
\* chain has run to its end.
WH_DispatchJoining(t) ==
    /\ pc[t] = "wh_go"
    /\ IF Len(endHooks) > 0 /\ goroutines = <<>>
         THEN /\ goroutines' = Append(goroutines, 0)
              /\ UNCHANGED <<pc, ret>>
         ELSE /\ \A g \in 1..Len(goroutines) : goroutines[g] >= Len(endHooks)
              /\ Return(t)
              /\ UNCHANGED goroutines
    /\ UNCHANGED <<status, body, bodyLen, afterHooks, endHooks, ended,
                   wroteHeader, header, code, buf, rbody, hooksRun, calls,
                   trace, endRan, normIn, loaded>>

\* if len(r.endHooks) > 0 { go runHooks(r.endHooks) }; return
WH_Dispatch(t) ==
    /\ pc[t] = "wh_go"
    /\ goroutines' = IF Len(endHooks) > 0 THEN Append(goroutines, 0)
                                           ELSE goroutines
    /\ Return(t)
    /\ UNCHANGED <<status, body, bodyLen, afterHooks, endHooks, ended,
                   wroteHeader, header, code, buf, rbody, hooksRun, calls,
                   trace, endRan, normIn, loaded>>

\* One iteration of the detached runHooks(r.endHooks).
GoRunHook(g) ==
    /\ g \in 1..Len(goroutines)
    /\ goroutines[g] < Len(endHooks)
    /\ endRan' = Append(endRan, HookOrder(Len(endHooks))[goroutines[g] + 1])
    /\ goroutines' = [goroutines EXCEPT ![g] = @ + 1]
    /\ UNCHANGED <<status, body, bodyLen, afterHooks, endHooks, ended,
                   wroteHeader, header, pc, ret, code, buf, rbody, hooksRun,
                   calls, trace, normIn, loaded>>

----------------------------------------------------------------------------
(* Write, statement by statement.                                          *)

\* if !r.wroteHeader.isTrue() {
W_Check(t) ==
    /\ pc[t] = "w_check"
    /\ Goto(t, IF ~wroteHeader THEN "w_status" ELSE "w_rw")
    /\ UNCHANGED <<status, body, bodyLen, afterHooks, endHooks, ended,
                   wroteHeader, header, code, buf, rbody, hooksRun, goroutines,
                   calls, trace, endRan, normIn, loaded>>

\* if r.status == 0 {
W_StatusRead(t) ==
    /\ pc[t] = "w_status"
    /\ IF status = 0
         THEN /\ Goto(t, "w_set")
              /\ UNCHANGED code
         ELSE /\ Enter(t, "wh_swap", "w_rw")
              /\ code' = [code EXCEPT ![t] = 0]
    /\ UNCHANGED <<status, body, bodyLen, afterHooks, endHooks, ended,
                   wroteHeader, header, buf, rbody, hooksRun, goroutines,
                   calls, trace, endRan, normIn, loaded>>

\* W_StatusSet leaving the status unset.
W_StatusSetSkipped(t) ==
    /\ pc[t] = "w_set"
    /\ Enter(t, "wh_swap", "w_rw")
    /\ code' = [code EXCEPT ![t] = 0]
    /\ UNCHANGED <<status, body, bodyLen, afterHooks, endHooks, ended,
                   wroteHeader, header, buf, rbody, hooksRun, goroutines,
                   calls, trace, endRan, normIn, loaded>>

\* r.status = 200 }; r.WriteHeader(0) }
W_StatusSet(t) ==
    /\ pc[t] = "w_set"
    /\ status' = 200
    /\ Enter(t, "wh_swap", "w_rw")
    /\ code' = [code EXCEPT ![t] = 0]
    /\ UNCHANGED <<body, bodyLen, afterHooks, endHooks, ended, wroteHeader,
                   header, buf, rbody, hooksRun, goroutines, calls, trace,
                   endRan, normIn, loaded>>

\* What the transport's Write may report for the bytes b: all of them
\* written, or an error after some of them.
RwResults(b) ==
    {[n |-> Len(b), err |-> FALSE]}
        \cup {[n |-> k, err |-> TRUE] : k \in 0..Len(b)}

\* The entry of the trace for r.rw.Write(data): what the transport reported
\* (n, err) and what Write returned to its caller (out).
WriteEvent(t, data, res, out) ==
    [ev |-> "rwWrite", n |-> res.n, data |-> data, by |-> t, op |-> OpOf(t),
     err |-> res.err, out |-> out]

\* Write reporting all bytes written and no error, whatever the transport
\* said.
W_RwWriteSwallows(t, res) ==
    /\ pc[t] = "w_rw"
    /\ trace' = Append(trace, WriteEvent(t, buf[t], res,
                                         <<Len(buf[t]), FALSE>>))
    /\ buf' = [buf EXCEPT ![t] = <<>>]
    /\ Return(t)
    /\ UNCHANGED <<status, body, bodyLen, afterHooks, endHooks, ended,
                   wroteHeader, header, code, rbody, hooksRun, goroutines,
                   calls, endRan, normIn, loaded>>

\* return r.rw.Write(buf), the transport reporting res.
W_RwWriteGets(t, res) ==
    /\ pc[t] = "w_rw"
    /\ trace' = Append(trace, WriteEvent(t, buf[t], res, <<res.n, res.err>>))
    /\ buf' = [buf EXCEPT ![t] = <<>>]
    /\ Return(t)
    /\ UNCHANGED <<status, body, bodyLen, afterHooks, endHooks, ended,
                   wroteHeader, header, code, rbody, hooksRun, goroutines,
                   calls, endRan, normIn, loaded>>

\* r.rw.Write(buf) with a buf that reaches into memory that is not its own:
\* the transport's read of it may fault, and the caller panics.
W_RwWritePanics(t) ==
    /\ pc[t] = "w_rw"
    /\ \E k \in 1..Len(buf[t]) : buf[t][k] = Unknown
    /\ trace' = Append(trace, WriteEvent(t, buf[t], [n |-> 0, err |-> TRUE],
                                         <<0, TRUE>>))
    /\ pc' = [pc EXCEPT ![t] = "panic"]
    /\ UNCHANGED <<status, body, bodyLen, afterHooks, endHooks, ended,
                   wroteHeader, header, ret, code, buf, rbody, hooksRun,
                   goroutines, calls, endRan, normIn, loaded>>

\* return r.rw.Write(buf), on a transport that takes all the bytes.
W_RwWrite(t) == W_RwWriteGets(t, [n |-> Len(buf[t]), err |-> FALSE])

----------------------------------------------------------------------------
(* respond, after r.body = body and r.WriteHeader(status).                 *)

\* R_Check going on to the call of Write whether or not there is a body.
R_CheckAlways(t) ==
    /\ pc[t] = "r_check"
    /\ Goto(t, "r_write")
    /\ UNCHANGED <<status, body, bodyLen, afterHooks, endHooks, ended,
                   wroteHeader, header, code, buf, rbody, hooksRun, goroutines,
                   calls, trace, endRan, normIn, loaded>>

\* if r.body != nil { ... }; return
R_Check(t) ==
    /\ pc[t] = "r_check"
    /\ IF body # Nil THEN Goto(t, "r_write") ELSE Return(t)
    /\ UNCHANGED <<status, body, bodyLen, afterHooks, endHooks, ended,
                   wroteHeader, header, code, buf, rbody, hooksRun, goroutines,
                   calls, trace, endRan, normIn, loaded>>

\* _, err = r.Write(r.body): the body is read again for the argument, a word
\* at a time; the first of the two reads.
R_Write(t) ==
    /\ pc[t] = "r_write"
    /\ \/ /\ rbody' = [rbody EXCEPT ![t] = [ptr |-> body, len |-> 0]]
          /\ Goto(t, "r_wlen")
       \/ /\ rbody' = [rbody EXCEPT ![t] = [ptr |-> Nil, len |-> bodyLen]]
          /\ Goto(t, "r_wptr")
    /\ UNCHANGED <<status, body, bodyLen, afterHooks, endHooks, ended,
                   wroteHeader, header, code, buf, hooksRun, goroutines,
                   calls, trace, endRan, normIn, loaded>>

\* The second read, of the data pointer; then the call of r.Write.
R_WritePtr(t) ==
    /\ pc[t] = "r_wptr"
    /\ buf' = [buf EXCEPT ![t] = SliceBytes(body, rbody[t].len)]
    /\ rbody' = [rbody EXCEPT ![t] = Slice(Nil)]
    /\ Enter(t, "w_check", "r_ret")
    /\ UNCHANGED <<status, body, bodyLen, afterHooks, endHooks, ended,
                   wroteHeader, header, code, hooksRun, goroutines, calls,
                   trace, endRan, normIn, loaded>>

\* The second read, of the length; then the call of r.Write.
R_WriteLen(t) ==
    /\ pc[t] = "r_wlen"
    /\ buf' = [buf EXCEPT ![t] = SliceBytes(rbody[t].ptr, bodyLen)]
    /\ rbody' = [rbody EXCEPT ![t] = Slice(Nil)]
    /\ Enter(t, "w_check", "r_ret")
    /\ UNCHANGED <<status, body, bodyLen, afterHooks, endHooks, ended,
                   wroteHeader, header, code, hooksRun, goroutines, calls,
                   trace, endRan, normIn, loaded>>

----------------------------------------------------------------------------
(* The header accessors, called by the handler between its other calls.    *)

HeaderEvent(ev, arg) ==
    [ev |-> ev, n |-> 0, data |-> [arg |-> arg, before |-> header],
     by |-> 1, op |-> ev]

\* r.Header().Set(key, value)
Set(key, value) ==
    /\ MayCall(1)
    /\ calls' = calls + 1
    /\ header' = HeaderSet(header, key, value)
    /\ trace' = Append(trace, HeaderEvent("Set", <<key, value>>))
    /\ UNCHANGED <<status, body, bodyLen, afterHooks, endHooks, ended,
                   wroteHeader, pc, ret, code, buf, rbody, hooksRun,
                   goroutines, endRan, normIn, loaded>>

\* r.Header().Del(key)
Del(key) ==
    /\ MayCall(1)
    /\ calls' = calls + 1
    /\ header' = HeaderDel(header, key)
    /\ trace' = Append(trace, HeaderEvent("Del", key))
    /\ UNCHANGED <<status, body, bodyLen, afterHooks, endHooks, ended,
                   wroteHeader, pc, ret, code, buf, rbody, hooksRun,
                   goroutines, endRan, normIn, loaded>>

\* Vary without the test of the existing value.
VaryUnguarded(field) ==
    /\ MayCall(1)
    /\ calls' = calls + 1
    /\ header' = IF field # ""
                    THEN IF field = "*"
                             THEN HeaderSet(header, HeaderVary, field)
                             ELSE HeaderAdd(header, HeaderVary, field)
                    ELSE header
    /\ trace' = Append(trace, HeaderEvent("Vary", field))
    /\ UNCHANGED <<status, body, bodyLen, afterHooks, endHooks, ended,
                   wroteHeader, pc, ret, code, buf, rbody, hooksRun,
                   goroutines, endRan, normIn, loaded>>

\* if field != "" && r.Get(HeaderVary) != "*" {
\*     if field == "*" { r.Header().Set(HeaderVary, field) }
\*     else { r.Header().Add(HeaderVary, field) } }
Vary(field) ==
    /\ MayCall(1)
    /\ calls' = calls + 1
    /\ header' = IF field # "" /\ HeaderGet(header, HeaderVary) # "*"
                    THEN IF field = "*"
                             THEN HeaderSet(header, HeaderVary, field)
                             ELSE HeaderAdd(header, HeaderVary, field)
                    ELSE header
    /\ trace' = Append(trace, HeaderEvent("Vary", field))
    /\ UNCHANGED <<status, body, bodyLen, afterHooks, endHooks, ended,
                   wroteHeader, pc, ret, code, buf, rbody, hooksRun,
                   goroutines, endRan, normIn, loaded>>

\* ResetHeader deleting the keys that match.
ResetHeaderInverted(filterReg) ==
    /\ MayCall(1)
    /\ calls' = calls + 1
    /\ LET reg == IF Len(filterReg) > 0 THEN filterReg[1]
                                        ELSE defaultHeaderFilterReg
       IN  header' = [key \in {k \in DOMAIN header : ~MatchString(reg, k)}
                        |-> header[key]]
    /\ trace' = Append(trace, HeaderEvent("ResetHeader", filterReg))
    /\ UNCHANGED <<status, body, bodyLen, afterHooks, endHooks, ended,
                   wroteHeader, pc, ret, code, buf, rbody, hooksRun,
                   goroutines, endRan, normIn, loaded>>

\* reg := defaultHeaderFilterReg; if len(filterReg) > 0 { reg = filterReg[0] }
\* for key := range header { if !reg.MatchString(key) { delete(header, key) } }
ResetHeader(filterReg) ==
    /\ MayCall(1)
    /\ calls' = calls + 1
    /\ LET reg == IF Len(filterReg) > 0 THEN filterReg[1]
                                        ELSE defaultHeaderFilterReg
       IN  header' = [key \in {k \in DOMAIN header : MatchString(reg, k)}
                        |-> header[key]]
    /\ trace' = Append(trace, HeaderEvent("ResetHeader", filterReg))
    /\ UNCHANGED <<status, body, bodyLen, afterHooks, endHooks, ended,
                   wroteHeader, pc, ret, code, buf, rbody, hooksRun,
                   goroutines, endRan, normIn, loaded>>

----------------------------------------------------------------------------

\* The steps of the callers in C, with arguments from the given sets.
Step(C, hookEffects, codes, respondCodes, bodies) ==
    \/ \E h \in hookEffects : After(h)
    \/ \E h \in EndHookEffects : OnEnd(h)
    \/ \E t \in C, c \in codes : CallWriteHeader(t, c)
    \/ \E t \in C, b \in Bufs : CallWrite(t, b)
    \/ \E t \in C, c \in respondCodes, b \in bodies : CallRespond(t, c, b)
    \/ \E t \in C : R_StorePtr(t)
    \/ \E t \in C : R_StoreLen(t)
    \/ \E t \in C : WH_Swap(t)
    \/ \E t \in C : WH_SetEnded(t)
    \/ \E t \in C : WH_SetStatus(t)
    \/ \E t \in C : WH_RunHook(t)
    \/ \E t \in C : WH_IsStatusCode(t)
    \/ \E t \in C : WH_FixStatus(t)
    \/ \E t \in C : WH_StoreFixed(t)
    \/ \E t \in C : WH_EmptyStatus(t)
    \/ \E t \in C : WH_NilBody(t)
    \/ \E t \in C : WH_NilPtr(t)
    \/ \E t \in C : WH_NilLen(t)
    \/ \E t \in C : WH_CheckBody(t)
    \/ \E t \in C : WH_LenBody(t)
    \/ \E t \in C : WH_SetContentLength(t)
    \/ \E t \in C : WH_LoadStatus(t)
    \/ \E t \in C : WH_RwWriteHeader(t)
    \/ \E t \in C : WH_Dispatch(t)
    \/ \E g \in 1..Len(goroutines) : GoRunHook(g)
    \/ \E t \in C : W_Check(t)
    \/ \E t \in C : W_StatusRead(t)
    \/ \E t \in C : W_StatusSet(t)
    \/ \E t \in C : W_RwWrite(t)
    \/ \E t \in C : W_RwWritePanics(t)
    \/ \E t \in C : R_Check(t)
    \/ \E t \in C : R_Write(t)
    \/ \E t \in C : R_WritePtr(t)
    \/ \E t \in C : R_WriteLen(t)

\* Two handlers racing on one Response.
Next == Step(Callers, {h \in HookEffects : h.kind = "nop"},
             {0, 200, 204}, {200, 204}, {Nil, Some(LongBody)})

Spec == Init /\ [][Next]_vars

\* One handler, calling in sequence, with every kind of argument.
NextSeq ==
    \/ \E h \in HookEffects : After(h)
    \/ \E c \in Codes : CallWriteHeader(1, c)
    \/ \E b \in Bufs : CallWrite(1, b)
    \/ \E c \in Codes, b \in Bodies : CallRespond(1, c, b)
    \/ R_StorePtr(1)
    \/ R_StoreLen(1)
    \/ WH_Swap(1)
    \/ WH_SetEnded(1)
    \/ WH_SetStatus(1)
    \/ WH_RunHook(1)
    \/ WH_IsStatusCode(1)
    \/ WH_FixStatus(1)
    \/ WH_StoreFixed(1)
    \/ WH_EmptyStatus(1)
    \/ WH_NilBody(1)
    \/ WH_NilPtr(1)
    \/ WH_NilLen(1)
    \/ WH_CheckBody(1)
    \/ WH_LenBody(1)
    \/ WH_SetContentLength(1)
    \/ WH_LoadStatus(1)
    \/ WH_RwWriteHeader(1)
    \/ WH_Dispatch(1)
    \/ W_Check(1)
    \/ W_StatusRead(1)
    \/ W_StatusSet(1)
    \/ W_RwWrite(1)
    \/ R_Check(1)
    \/ R_Write(1)
    \/ R_WritePtr(1)
    \/ R_WriteLen(1)

SpecSeq == Init /\ [][NextSeq]_vars

\* One handler that sets a status, then writes the body with Write.
NextWrite ==
    \/ \E s \in Codes : SetStatus(s)
    \/ \E h \in HookEffects : After(h)
    \/ \E h \in EndHookEffects : OnEnd(h)
    \/ \E b \in Bufs : CallWrite(1, b)
    \/ WH_Swap(1)
    \/ WH_SetEnded(1)
    \/ WH_SetStatus(1)
    \/ WH_RunHook(1)
    \/ WH_IsStatusCode(1)
    \/ WH_FixStatus(1)
    \/ WH_StoreFixed(1)
    \/ WH_EmptyStatus(1)
    \/ WH_NilBody(1)
    \/ WH_NilPtr(1)
    \/ WH_NilLen(1)
    \/ WH_CheckBody(1)
    \/ WH_LenBody(1)
    \/ WH_SetContentLength(1)
    \/ WH_LoadStatus(1)
    \/ WH_RwWriteHeader(1)
    \/ WH_Dispatch(1)
    \/ \E g \in 1..Len(goroutines) : GoRunHook(g)
    \/ W_Check(1)
    \/ W_StatusRead(1)
    \/ W_StatusSet(1)
    \/ W_RwWrite(1)

SpecWrite == Init /\ [][NextWrite]_vars

\* The statements of WriteHeader, for one caller.
CommitStep(t) ==
    \/ WH_Swap(t)
    \/ WH_SetEnded(t)
    \/ WH_SetStatus(t)
    \/ WH_RunHook(t)
    \/ WH_IsStatusCode(t)
    \/ WH_FixStatus(t)
    \/ WH_StoreFixed(t)
    \/ WH_EmptyStatus(t)
    \/ WH_NilBody(t)
    \/ WH_NilPtr(t)
    \/ WH_NilLen(t)
    \/ WH_CheckBody(t)
    \/ WH_LenBody(t)
    \/ WH_SetContentLength(t)
    \/ WH_LoadStatus(t)
    \/ WH_RwWriteHeader(t)
    \/ WH_Dispatch(t)

\* The arguments of the racing WriteHeader calls, and what their hooks do.
CommitCodes == {0, 200, 999}
CommitHooks == {h \in HookEffects : h.kind \in {"nop", "status"}}

\* Handlers racing to commit with WriteHeader.
NextCommit ==
    \/ \E h \in CommitHooks : After(h)
    \/ \E h \in EndHookEffects : OnEnd(h)
    \/ \E t \in Callers, c \in CommitCodes : CallWriteHeader(t, c)
    \/ \E t \in Callers : WH_Swap(t)
    \/ \E t \in Callers : WH_SetEnded(t)
    \/ \E t \in Callers : WH_SetStatus(t)
    \/ \E t \in Callers : WH_RunHook(t)
    \/ \E t \in Callers : WH_IsStatusCode(t)
    \/ \E t \in Callers : WH_FixStatus(t)
    \/ \E t \in Callers : WH_StoreFixed(t)
    \/ \E t \in Callers : WH_EmptyStatus(t)
    \/ \E t \in Callers : WH_NilBody(t)
    \/ \E t \in Callers : WH_NilPtr(t)
    \/ \E t \in Callers : WH_NilLen(t)
    \/ \E t \in Callers : WH_CheckBody(t)
    \/ \E t \in Callers : WH_LoadStatus(t)
    \/ \E t \in Callers : WH_RwWriteHeader(t)
    \/ \E t \in Callers : WH_Dispatch(t)
    \/ \E g \in 1..Len(goroutines) : GoRunHook(g)

\* A goroutine inside WriteHeader is scheduled again and again, and the
\* before-commit hooks it calls terminate. Nothing is assumed of the detached
\* runHooks(r.endHooks): an after-commit hook may never terminate.
CommitFairness == \A t \in Callers : WF_vars(CommitStep(t))

SpecCommit == Init /\ [][NextCommit]_vars /\ CommitFairness

\* The arguments of a WriteHeader on a Response whose status may be set, and
\* what the hooks do: two of them set a status, each its own.
PresetCodes == {-1, 0, 200, 999}
PresetStatuses == {200, 204, 999}
PresetHooks == HookEffects \cup {[kind |-> "status", st |-> 404, bd |-> Nil]}

\* One handler that may set a status, then commits with WriteHeader.
NextPreset ==
    \/ \E s \in PresetStatuses : SetStatus(s)
    \/ \E h \in PresetHooks : After(h)
    \/ \E c \in PresetCodes : CallWriteHeader(1, c)
    \/ WH_Swap(1)
    \/ WH_SetEnded(1)
    \/ WH_SetStatus(1)
    \/ WH_RunHook(1)
    \/ WH_IsStatusCode(1)
    \/ WH_FixStatus(1)
    \/ WH_StoreFixed(1)
    \/ WH_EmptyStatus(1)
    \/ WH_NilBody(1)
    \/ WH_NilPtr(1)
    \/ WH_NilLen(1)
    \/ WH_CheckBody(1)
    \/ WH_LenBody(1)
    \/ WH_SetContentLength(1)
    \/ WH_LoadStatus(1)
    \/ WH_RwWriteHeader(1)
    \/ WH_Dispatch(1)

SpecPreset == Init /\ [][NextPreset]_vars

\* Handlers racing with WriteHeader and Write, with hooks in both chains.
NextRace ==
    \/ \E h \in {e \in HookEffects : e.kind = "nop"} : After(h)
    \/ \E h \in EndHookEffects : OnEnd(h)
    \/ \E g \in 1..Len(goroutines) : GoRunHook(g)
    \/ \E t \in Callers, c \in {0, 200, 204} : CallWriteHeader(t, c)
    \/ \E t \in Callers, b \in Bufs : CallWrite(t, b)
    \/ \E t \in Callers : WH_Swap(t)
    \/ \E t \in Callers : WH_SetEnded(t)
    \/ \E t \in Callers : WH_SetStatus(t)
    \/ \E t \in Callers : WH_RunHook(t)
    \/ \E t \in Callers : WH_IsStatusCode(t)
    \/ \E t \in Callers : WH_FixStatus(t)
    \/ \E t \in Callers : WH_StoreFixed(t)
    \/ \E t \in Callers : WH_EmptyStatus(t)
    \/ \E t \in Callers : WH_NilBody(t)
    \/ \E t \in Callers : WH_NilPtr(t)
    \/ \E t \in Callers : WH_NilLen(t)
    \/ \E t \in Callers : WH_CheckBody(t)
    \/ \E t \in Callers : WH_LoadStatus(t)
    \/ \E t \in Callers : WH_RwWriteHeader(t)
    \/ \E t \in Callers : WH_Dispatch(t)
    \/ \E t \in Callers : W_Check(t)
    \/ \E t \in Callers : W_StatusRead(t)
    \/ \E t \in Callers : W_StatusSet(t)
    \/ \E t \in Callers : W_RwWrite(t)

SpecRace == Init /\ [][NextRace]_vars

\* The bytes given to Write by a handler that goes on after the commit.
AfterBufs == {<<>>, <<104, 105>>}

\* One handler that commits, then writes, on a transport whose Write may
\* fail.
NextAfter ==
    \/ \E h \in {e \in HookEffects : e.kind = "nop"} : After(h)
    \/ \E h \in EndHookEffects : OnEnd(h)
    \/ \E c \in {0, 200, 204} : CallWriteHeader(1, c)
    \/ \E b \in AfterBufs : CallWrite(1, b)
    \/ CallRespond(1, 200, Some(<<33>>))
    \/ R_StorePtr(1)
    \/ R_StoreLen(1)
    \/ WH_Swap(1)
    \/ WH_SetEnded(1)
    \/ WH_SetStatus(1)
    \/ WH_RunHook(1)
    \/ WH_IsStatusCode(1)
    \/ WH_FixStatus(1)
    \/ WH_StoreFixed(1)
    \/ WH_EmptyStatus(1)
    \/ WH_NilBody(1)
    \/ WH_NilPtr(1)
    \/ WH_NilLen(1)
    \/ WH_CheckBody(1)
    \/ WH_LenBody(1)
    \/ WH_SetContentLength(1)
    \/ WH_LoadStatus(1)
    \/ WH_RwWriteHeader(1)
    \/ WH_Dispatch(1)
    \/ \E g \in 1..Len(goroutines) : GoRunHook(g)
    \/ W_Check(1)
    \/ W_StatusRead(1)
    \/ W_StatusSet(1)
    \/ \E res \in RwResults(buf[1]) : W_RwWriteGets(1, res)
    \/ R_Check(1)
    \/ R_Write(1)
    \/ R_WritePtr(1)
    \/ R_WriteLen(1)

SpecAfter == Init /\ [][NextAfter]_vars

\* The headers the transport holds when the handler starts.
StartHeaders ==
    {<<>>,
     ("Accept" :> <<"text/html">>) @@ ("X-Custom" :> <<"1">>)
        @@ ("Vary" :> <<"Accept">>),
     ("Accept-Encoding" :> <<"gzip">>) @@ ("X-Accept" :> <<"1">>)
        @@ ("Content-Length" :> <<"5">>),
     "Vary" :> <<"*">>,
     "Vary" :> <<"Accept", "*">>,
     "Vary" :> <<"*", "Accept">>}

VaryFields == {"", "*", "Accept", "Origin"}
FilterRegs == {<<>>, <<LowerXReg>>, <<UpperXReg>>}

\* The keys and the values the handler gives to Set and Del.
SetKeys == {"vary", "x-CUSTOM", "Content-Length"}
SetValues == {"*", "7"}
DelKeys == {"Vary", "X-Custom", "content-length"}

InitHeader ==
    /\ status = 0
    /\ body = Nil
    /\ bodyLen = 0
    /\ afterHooks = <<>>
    /\ endHooks = <<>>
    /\ ended = FALSE
    /\ wroteHeader = FALSE
    /\ header \in StartHeaders
    /\ pc = [t \in Callers |-> "idle"]
    /\ ret = [t \in Callers |-> <<>>]
    /\ code = [t \in Callers |-> 0]
    /\ buf = [t \in Callers |-> <<>>]
    /\ rbody = [t \in Callers |-> Slice(Nil)]
    /\ hooksRun = [t \in Callers |-> 0]
    /\ goroutines = <<>>
    /\ calls = 0
    /\ trace = <<>>
    /\ endRan = <<>>
    /\ normIn = <<0, Nil>>
    /\ loaded = [t \in Callers |-> 0]

\* One handler that works on the headers before, between and after its
\* other calls.
NextHeader ==
    \/ \E k \in SetKeys, v \in SetValues : Set(k, v)
    \/ \E k \in DelKeys : Del(k)
    \/ \E f \in VaryFields : Vary(f)
    \/ \E fr \in FilterRegs : ResetHeader(fr)
    \/ \E c \in {0, 204} : CallWriteHeader(1, c)
    \/ \E b \in Bufs : CallWrite(1, b)
    \/ CallRespond(1, 200, Some(<<33>>))
    \/ R_StorePtr(1)
    \/ R_StoreLen(1)
    \/ WH_Swap(1)
    \/ WH_SetEnded(1)
    \/ WH_SetStatus(1)
    \/ WH_IsStatusCode(1)
    \/ WH_FixStatus(1)
    \/ WH_StoreFixed(1)
    \/ WH_EmptyStatus(1)
    \/ WH_NilBody(1)
    \/ WH_NilPtr(1)
    \/ WH_NilLen(1)
    \/ WH_CheckBody(1)
    \/ WH_LenBody(1)
    \/ WH_SetContentLength(1)
    \/ WH_LoadStatus(1)
    \/ WH_RwWriteHeader(1)
    \/ WH_Dispatch(1)
    \/ W_Check(1)
    \/ W_StatusRead(1)
    \/ W_StatusSet(1)
    \/ W_RwWrite(1)
    \/ R_Check(1)
    \/ R_Write(1)
    \/ R_WritePtr(1)
    \/ R_WriteLen(1)

SpecHeader == InitHeader /\ [][NextHeader]_vars

----------------------------------------------------------------------------
(* Properties.                                                             *)

Events(ev) == SelectSeq(trace, LAMBDA e : e.ev = ev)
Count(ev) == Len(Events(ev))

\* The indices of the before-commit hooks run, in order.
AfterRan == [k \in 1..Count("afterHook") |-> Events("afterHook")[k].n]

\* Whether entry k of the trace has an entry of kind ev before it.
Preceded(k, ev) == \E j \in 1..(k - 1) : trace[j].ev = ev

Idle == \A t \in Callers : pc[t] = "idle"

\* Whether a handler has called Write (directly, not through respond).
WriteCalled ==
    \/ \E t \in Callers : pc[t] # "idle" /\ OpOf(t) = "Write"
    \/ \E k \in 1..Len(trace) : trace[k].ev = "rwWrite" /\ trace[k].op = "Write"

NoStatusHook == \A k \in 1..Len(afterHooks) : afterHooks[k].kind # "status"

\* A caller that finds wroteHeader set leaves WriteHeader.
LosesSwap(t) == pc[t] = "wh_swap" /\ wroteHeader /\ pc'[t] # "wh_swap"

\* However many calls race, there is one transport header commit, each
\* before-commit hook runs once, and the after-commit chain is dispatched
\* once (not at all when it is empty).
C1_CommitOnceState ==
    LET ran == AfterRan
        times(seq, i) == Cardinality({k \in 1..Len(seq) : seq[k] = i})
        commits == Count("rwWriteHeader")
    IN  /\ Count("swapTrue") <= 1
        /\ commits <= 1
        /\ Len(goroutines) <= 1
        /\ \A i \in 1..Len(afterHooks) : times(ran, i) <= 1
        /\ \A i \in 1..Len(endHooks) : times(endRan, i) <= 1
        /\ (Idle /\ calls > 0) =>
             /\ commits = 1
             /\ \A i \in 1..Len(afterHooks) : times(ran, i) = 1
             /\ Len(goroutines) = IF Len(endHooks) > 0 THEN 1 ELSE 0

\* C1: in every state the commit has happened at most once (exactly once
\* when the calls have returned), and a call that loses the swap leaves
\* every field of the Response, the transport and the hooks untouched.
C1_CommitExactlyOnce ==
    /\ []C1_CommitOnceState
    /\ [][\A t \in Callers : LosesSwap(t) =>
            UNCHANGED <<status, body, bodyLen, afterHooks, endHooks, ended,
                        wroteHeader, header, rbody, goroutines, trace, endRan,
                        normIn>>]_vars

\* Two calls were made and have returned, neither wrote bytes: one commit,
\* both hooks of each chain involved.
C1_Witness ==
    /\ Idle /\ calls = 2
    /\ Count("rwWrite") = 0
    /\ Count("rwWriteHeader") = 1
    /\ Len(AfterRan) = 2
    /\ Len(goroutines) = 1

\* C2: when WriteHeader calls with valid statuses race (no Write involved, no
\* hook changing the status), the status is never anything but unset or the
\* winner's, and the winner's is the one the transport gets, from the winner.
C2_WinnerStatus ==
    \A k \in 1..Len(trace) :
        ( /\ trace[k].ev = "swapTrue"
          /\ trace[k].op = "WriteHeader"
          /\ IsStatusCode(trace[k].n)
          /\ NoStatusHook
          /\ ~WriteCalled ) =>
        /\ status \in {0, trace[k].n}
        /\ pc[trace[k].by] \notin {"wh_ended", "wh_status"}
             => status = trace[k].n
        /\ \A j \in 1..Len(trace) : trace[j].ev = "rwWriteHeader" =>
             trace[j].n = trace[k].n /\ trace[j].by = trace[k].by

\* WriteHeader(200) won and has committed 200 while a WriteHeader(204) is
\* still about to lose the swap.
C2_Witness ==
    /\ ~WriteCalled
    /\ \E k \in 1..Len(trace) :
         trace[k].ev = "swapTrue" /\ trace[k].op = "WriteHeader"
         /\ trace[k].n = 200
    /\ \E k \in 1..Len(trace) :
         trace[k].ev = "rwWriteHeader" /\ trace[k].n = 200
    /\ \E t \in Callers :
         pc[t] = "wh_swap" /\ code[t] = 204 /\ OpOf(t) = "WriteHeader"

\* C3: both chains run in the reverse of the registration order, the k-th
\* hook run being the k-th from the end, and none is skipped.
C3_HooksLIFO ==
    /\ \A k \in 1..Len(AfterRan) : AfterRan[k] = Len(afterHooks) - (k - 1)
    /\ \A k \in 1..Len(endRan) : endRan[k] = Len(endHooks) - (k - 1)
    /\ Count("rwWriteHeader") > 0 => Len(AfterRan) = Len(afterHooks)
    /\ \A g \in 1..Len(goroutines) :
         ~ENABLED GoRunHook(g) => Len(endRan) = Len(endHooks)

C3_Witness ==
    /\ Len(afterHooks) = 2 /\ AfterRan = <<2, 1>>
    /\ Len(endHooks) = 2 /\ endRan = <<2, 1>>

\* C4: the transport header commit comes after every before-commit hook and
\* before any after-commit hook; no after-commit hook has run while a
\* before-commit hook is pending or running.
C4_ChainOrder ==
    /\ \A k \in 1..Len(trace) : trace[k].ev = "rwWriteHeader" =>
         /\ Cardinality({j \in 1..(k - 1) : trace[j].ev = "afterHook"})
              = Len(afterHooks)
         /\ \A j \in (k + 1)..Len(trace) : trace[j].ev # "afterHook"
    /\ (goroutines # <<>> \/ endRan # <<>>) => Count("rwWriteHeader") >= 1
    /\ endRan # <<>> =>
         \A t \in Callers : pc[t] \notin {"wh_ended", "wh_status", "wh_hooks"}

C4_Witness ==
    /\ Len(AfterRan) = 2
    /\ Count("rwWriteHeader") = 1
    /\ Len(endRan) = 2

\* C5: bytes reach the transport's Write only after the transport's
\* WriteHeader.
C5_WriteAfterCommit ==
    \A k \in 1..Len(trace) :
        trace[k].ev = "rwWrite" => Preceded(k, "rwWriteHeader")

\* The normalisation table: what a commit makes of the status and body the
\* before-commit hooks left.
NormalizedPair(s, b) ==
    IF ~IsStatusCode(s)
        THEN IF b # Nil THEN <<200, b>> ELSE <<421, Nil>>
    ELSE IF isEmptyStatus(s) THEN <<s, Nil>>
    ELSE <<s, b>>

\* C6: when the status check of a commit is over, status and body are what
\* the table gives for the pair the check started from; among them the five
\* listed cases.
C6_Normalization ==
    \A t \in Callers : pc[t] = "wh_clcheck" =>
        /\ <<status, body>> = NormalizedPair(normIn[1], normIn[2])
        /\ normIn = <<0, Nil>> => status = 421 /\ body = Nil
        /\ (normIn[1] \in {0, 999} /\ normIn[2] # Nil)
             => status = 200 /\ body = normIn[2]
        /\ (normIn[1] \in {100, 204, 304}) => status = normIn[1] /\ body = Nil
        /\ normIn[1] = 200 => status = 200 /\ body = normIn[2]

\* An unknown status with a body has become 200, the body kept.
C6_Witness ==
    /\ pc[1] = "wh_clcheck"
    /\ normIn = <<999, Some(LongBody)>>
    /\ status = 200 /\ body = Some(LongBody)

\* The decimal numeral of a number below 100.
Decimal(n) == IF n < 10 THEN Digit(n) ELSE Digit(n \div 10) \o Digit(n % 10)

\* C7: right after the transport header commit, a body that is not nil has
\* its length, in decimal, as Content-Length; with a nil body the commit has
\* set no Content-Length.
C7_ContentLength ==
    \A t \in Callers : pc[t] = "wh_go" =>
        /\ body # Nil =>
             /\ HeaderContentLength \in DOMAIN header
             /\ header[HeaderContentLength] = <<Decimal(Len(Bytes(body)))>>
        /\ body = Nil =>
             /\ Count("setContentLength") = 0
             /\ HeaderContentLength \notin DOMAIN header

\* A body of twelve bytes was committed with Content-Length "12".
C7_Witness ==
    /\ pc[1] = "wh_go"
    /\ body = Some(LongBody)
    /\ HeaderGet(header, HeaderContentLength) = "12"

\* The status the handler set before its call (0: none).
Preset == IF trace # <<>> /\ trace[1].ev = "setStatus" THEN trace[1].n ELSE 0

\* C8: a Write on an uncommitted Response commits first, with no status
\* override; with the status unset and no hook setting one the transport
\* gets 200, whether or not there is a body; a status set before is the one
\* normalised and committed.
C8_ImplicitCommit ==
    \A k \in 1..Len(trace) :
        /\ trace[k].ev = "rwWrite" => Preceded(k, "rwWriteHeader")
        /\ trace[k].ev = "swapTrue" => trace[k].n = 0 /\ trace[k].op = "Write"
        /\ (trace[k].ev = "rwWriteHeader" /\ NoStatusHook) =>
             trace[k].n = IF Preset = 0 THEN 200
                          ELSE NormalizedPair(Preset, normIn[2])[1]

\* Write on a fresh Response with no body: the transport got 200, then the
\* bytes.
C8_Witness ==
    /\ Preset = 0 /\ NoStatusHook /\ body = Nil
    /\ Len(afterHooks) > 0
    /\ \E k \in 1..Len(trace) :
         trace[k].ev = "rwWriteHeader" /\ trace[k].n = 200
    /\ Count("rwWrite") = 1

\* C9: the transport gets one header commit and the body of at most one
\* respond call.
C9_RespondOnce ==
    /\ Count("rwWriteHeader") <= 1
    /\ Cardinality({k \in 1..Len(trace) :
           trace[k].ev = "rwWrite" /\ trace[k].op = "respond"}) <= 1

\* C10: once the transport header commit is made, body is nil unless the
\* committed status allows one.
C10_BodyOnlyIfPermitted ==
    \A k \in 1..Len(trace) :
        (trace[k].ev = "rwWriteHeader" /\ body # Nil)
            => ~isEmptyStatus(trace[k].n)

\* The bytes given to the transport's Write, call by call.
RawWrites == [k \in 1..Count("rwWrite") |-> Events("rwWrite")[k].data]

\* The first call on the Response is a respond, and no other was made.
OnlyRespond ==
    /\ calls = 1
    /\ trace # <<>>
    /\ trace[1].ev = "swapTrue" /\ trace[1].op = "respond"

\* C11: a respond on an uncommitted Response makes one raw write, of the
\* body as the normalisation left it, when that body is not nil, after the
\* transport header commit; it makes none when that body is nil, in
\* particular when the committed status allows no body or when the body the
\* hooks left was nil.
C11_RespondWritesBody ==
    OnlyRespond =>
        LET left == NormalizedPair(normIn[1], normIn[2])[2]
        IN  /\ Len(RawWrites) <= 1
            /\ \A k \in 1..Len(trace) : trace[k].ev = "rwWrite" =>
                 /\ Preceded(k, "rwWriteHeader")
                 /\ left # Nil /\ trace[k].data = Bytes(left)
            /\ pc[1] = "idle" =>
                 /\ body = left
                 /\ RawWrites = IF left # Nil THEN <<Bytes(left)>> ELSE <<>>
                 /\ (isEmptyStatus(status) \/ normIn[2] = Nil)
                      => RawWrites = <<>>

\* respond(200, body of twelve bytes) has returned: the transport got 200,
\* then the twelve bytes, once.
C11_Witness ==
    /\ OnlyRespond /\ pc[1] = "idle"
    /\ Events("rwWriteHeader")[1].n = 200
    /\ RawWrites = <<LongBody>>

\* C12: a caller that has made the transport header commit leaves
\* WriteHeader whatever the detached after-commit chain does, even if it
\* never runs or never ends.
C12_ReturnsWithoutWaiting ==
    \A t \in Callers : (pc[t] = "wh_go") ~> (pc[t] = "idle")

\* WriteHeader has returned, the after-commit chain of two hooks is
\* dispatched and none of its hooks has run yet.
C12_Witness ==
    /\ Idle /\ calls > 0
    /\ Count("rwWriteHeader") = 1
    /\ Len(endHooks) = 2
    /\ goroutines = <<0>> /\ endRan = <<>>

\* The values of the Vary header, none when the key is absent.
VaryOf(h) == IF HeaderVary \in DOMAIN h THEN h[HeaderVary] ELSE <<>>

\* The two headers agree on every key but Vary.
SameButVary(h1, h2) ==
    /\ DOMAIN h1 \ {HeaderVary} = DOMAIN h2 \ {HeaderVary}
    /\ \A k \in DOMAIN h1 \ {HeaderVary} : h1[k] = h2[k]

\* The step is a call of the accessor ev with the argument arg.
Called(ev, arg) ==
    /\ Len(trace') = Len(trace) + 1
    /\ trace'[Len(trace')].ev = ev
    /\ trace'[Len(trace')].data.arg = arg

\* C13 as stated: whatever the Vary values are, Vary("") changes nothing,
\* the single value "*" stays, Vary("*") leaves the single value "*", and
\* any other field is appended to the values there are.
C13_VaryAnyStart ==
    [][\A f \in VaryFields : Called("Vary", f) =>
        LET old == VaryOf(header)
            new == VaryOf(header')
        IN  /\ f = "" => header' = header
            /\ old = <<"*">> => new = <<"*">>
            /\ f = "*" => new = <<"*">>
            /\ (f \notin {"", "*"} /\ old # <<"*">>) => new = old \o <<f>>
            /\ SameButVary(header, header')]_vars

\* C13, amended: Vary("") changes nothing; when the first Vary value is "*"
\* a Vary call changes nothing (so the single value "*" stays); otherwise
\* Vary("*") leaves the single value "*" and any other field is appended to
\* the values there are, kept in order. No other key is touched.
C13_VaryMerge ==
    [][\A f \in VaryFields : Called("Vary", f) =>
        LET old == VaryOf(header)
            new == VaryOf(header')
            wild == Len(old) > 0 /\ old[1] = "*"
        IN  /\ (f = "" \/ wild) => header' = header
            /\ old = <<"*">> => new = <<"*">>
            /\ (f = "*" /\ ~wild) => new = <<"*">>
            /\ (f \notin {"", "*"} /\ ~wild) => new = old \o <<f>>
            /\ SameButVary(header, header')]_vars

\* Vary("Accept") then Vary("Origin") on a Response without Vary: both
\* values are there, in that order.
C13_Witness ==
    /\ Len(trace) = 2
    /\ trace[1].ev = "Vary" /\ trace[1].data.arg = "Accept"
    /\ trace[1].data.before = <<>>
    /\ trace[2].ev = "Vary" /\ trace[2].data.arg = "Origin"
    /\ VaryOf(header) = <<"Accept", "Origin">>

\* The keys of the model that the default filter keeps.
DefaultKept == {"Accept", "Accept-Encoding", "Vary"}

\* C14: ResetHeader leaves exactly the keys that were there and match the
\* filter (the default one when none is given), with their values, and
\* removes the others; the default filter keeps Accept and Vary and removes
\* X-Custom; status, body and the two flags are left as they are.
C14_ResetHeaderKeeps ==
    [][\A fr \in FilterRegs : Called("ResetHeader", fr) =>
        LET reg == IF fr = <<>> THEN defaultHeaderFilterReg ELSE fr[1]
        IN  /\ DOMAIN header' = {k \in DOMAIN header : MatchString(reg, k)}
            /\ \A k \in DOMAIN header' : header'[k] = header[k]
            /\ fr = <<>> => DOMAIN header' = DOMAIN header \cap DefaultKept
            /\ UNCHANGED <<status, body, ended, wroteHeader>>]_vars

\* After a commit with 204, ResetHeader() on {Accept, X-Custom, Vary} has
\* left Accept and Vary, with their values.
C14_Witness ==
    /\ status = 204 /\ ended /\ wroteHeader
    /\ trace # <<>>
    /\ LET e == trace[Len(trace)]
       IN  /\ e.ev = "ResetHeader" /\ e.data.arg = <<>>
           /\ DOMAIN e.data.before = {"Accept", "X-Custom", "Vary"}
           /\ DOMAIN header = {"Accept", "Vary"}
           /\ header["Accept"] = e.data.before["Accept"]
           /\ header["Vary"] = e.data.before["Vary"]

\* The code the winner of the swap was called with (0 before the swap).
WinnerCode ==
    IF Count("swapTrue") > 0 THEN Events("swapTrue")[1].n ELSE 0

\* A before-commit hook that sets the status has run.
StatusHookRan ==
    \E k \in 1..Len(trace) :
        trace[k].ev = "afterHook" /\ afterHooks[trace[k].n].kind = "status"

\* While the before-commit chain is running, both flags are set, and a code
\* above 0 is in status until a hook puts another status there.
C15_HookSeesState ==
    \A t \in Callers : pc[t] = "wh_hooks" =>
        /\ wroteHeader /\ ended
        /\ (WinnerCode > 0 /\ ~StatusHookRan) => status = WinnerCode

\* C15: whenever a before-commit hook is executing the two flags are set and
\* an explicit status is stored; the step that starts the chain finds the
\* flags set, stores the code if it is above 0, and no hook has run before
\* it, nor runs before the flags are set.
C15_SetBeforeHooks ==
    /\ []C15_HookSeesState
    /\ [][\A t \in Callers :
            /\ (pc[t] = "wh_status" /\ pc'[t] = "wh_hooks") =>
                 /\ wroteHeader /\ ended
                 /\ code[t] > 0 => status' = code[t]
                 /\ Count("afterHook") = 0
            /\ Count("afterHook")' > Count("afterHook") =>
                 wroteHeader /\ ended]_vars

\* WriteHeader(999) is about to call the first of two before-commit hooks:
\* the flags are set and status is 999.
C15_Witness ==
    \E t \in Callers :
        /\ pc[t] = "wh_hooks" /\ hooksRun[t] = 0
        /\ Len(afterHooks) = 2
        /\ WinnerCode = 999 /\ status = 999
        /\ wroteHeader /\ ended

\* The status the before-commit chain starts from: the code of the call when
\* above 0, else the status stored before.
EntryStatus == IF WinnerCode > 0 THEN WinnerCode ELSE Preset

\* The status the chain leaves: that of the status-setting hook that runs
\* last, which is the first registered; the entry status when there is none.
LeftStatus ==
    LET setters == {i \in 1..Len(afterHooks) : afterHooks[i].kind = "status"}
        last == CHOOSE i \in setters : \A j \in setters : i <= j
    IN  IF setters = {} THEN EntryStatus ELSE afterHooks[last].st

\* The body the chain leaves, on a Response whose body was nil.
LeftBody ==
    LET setters == {i \in 1..Len(afterHooks) : afterHooks[i].kind = "body"}
        last == CHOOSE i \in setters : \A j \in setters : i <= j
    IN  IF setters = {} THEN Nil ELSE afterHooks[last].bd

\* C16: the transport gets the normalisation of the status the last
\* before-commit hook left, whatever the code of the call; a valid status
\* set by a hook is the one committed; with a code of 0 or less the chain
\* starts from the status stored before the call.
C16_CommitsHookStatus ==
    /\ \A t \in Callers : (pc[t] = "wh_hooks" /\ hooksRun[t] = 0) =>
          /\ status = EntryStatus
          /\ WinnerCode <= 0 => status = Preset
    /\ \A k \in 1..Len(trace) : trace[k].ev = "rwWriteHeader" =>
          /\ trace[k].n = NormalizedPair(LeftStatus, LeftBody)[1]
          /\ (~NoStatusHook /\ IsStatusCode(LeftStatus))
               => trace[k].n = LeftStatus

\* WriteHeader(200) with two hooks, the one run last setting 404: the
\* transport got 404.
C16_Witness ==
    /\ WinnerCode = 200
    /\ Count("rwWriteHeader") = 1
    /\ Len(afterHooks) = 2
    /\ afterHooks[1].kind = "status" /\ afterHooks[1].st = 404
    /\ afterHooks[2].kind = "status" /\ afterHooks[2].st = 304
    /\ Events("rwWriteHeader")[1].n = 404

\* C17: a WriteHeader call that finds the commit begun can return at once,
\* in one step and wherever the winner is, in particular while the winner's
\* before-commit hooks are running and the transport header commit is not
\* made; it never has to wait for the winner.
C17_LoserReturnsAtOnce ==
    \A t \in Callers : (pc[t] = "wh_swap" /\ wroteHeader) =>
        ENABLED (WH_Swap(t) /\ pc'[t] = "idle" /\ trace' = trace)

\* The losing call has returned; the winner has run the first of its two
\* before-commit hooks and the transport header commit is not made.
C17_Witness ==
    \E t, u \in Callers :
        /\ calls = 2
        /\ pc[t] = "idle"
        /\ pc[u] = "wh_hooks" /\ hooksRun[u] = 1 /\ Len(afterHooks) = 2
        /\ Count("rwWriteHeader") = 0

\* The caller won the swap.
Won(t) == \E k \in 1..Len(trace) : trace[k].ev = "swapTrue" /\ trace[k].by = t

\* The caller made the transport header commit.
Committed(t) ==
    \E k \in 1..Len(trace) : trace[k].ev = "rwWriteHeader" /\ trace[k].by = t

\* The statements of WriteHeader after the swap.
InCommit == {"wh_ended", "wh_status", "wh_hooks", "wh_fix", "wh_fixset",
             "wh_empty", "wh_nil", "wh_nilptr", "wh_nillen", "wh_clcheck",
             "wh_clset", "wh_clstore", "wh_rw", "wh_rwcall", "wh_go"}

\* C18: with callers that keep running and before-commit hooks that
\* terminate, the call that wins the swap makes the transport header commit
\* and returns; a call inside the commit leaves WriteHeader only after the
\* transport header commit.
C18_CommitCompletes ==
    /\ \A t \in Callers : Won(t) ~> (Committed(t) /\ pc[t] = "idle")
    /\ [][\A t \in Callers :
            (pc[t] \in InCommit /\ pc'[t] \notin InCommit)
                => (pc[t] = "wh_go" /\ Committed(t))]_vars

\* WriteHeader(999) won, ran both hooks, committed 421 and has returned.
C18_Witness ==
    \E t \in Callers :
        /\ Won(t) /\ WinnerCode = 999
        /\ AfterRan = <<2, 1>>
        /\ Committed(t) /\ Events("rwWriteHeader")[1].n = 421
        /\ pc[t] = "idle"

\* C19: once the transport header commit is made, Status() is the status
\* the transport was given, and that is a status code.
C19_StatusIsCommitted ==
    \A k \in 1..Len(trace) : trace[k].ev = "rwWriteHeader" =>
        /\ status = trace[k].n
        /\ IsStatusCode(trace[k].n)

\* C20: every step of a Write called after the commit was completed leaves
\* status, body, the headers, the hook chains and the flags as they are and
\* runs no hook; the call gives the transport its bytes, once, and returns
\* the count and the error the transport reported. (The handler calls in
\* sequence and its first call commits: from its second call on, a Write is
\* one made after the commit was completed.)
C20_WriteAfterCommitFrame ==
    [][(calls >= 2 /\ Count("rwWriteHeader") = 1
          /\ pc[1] \in {"w_check", "w_rw"} /\ pc'[1] # pc[1]) =>
        /\ UNCHANGED <<status, body, header, afterHooks, endHooks, ended,
                       wroteHeader, goroutines, endRan>>
        /\ IF pc[1] = "w_check"
             THEN pc'[1] = "w_rw" /\ trace' = trace /\ buf' = buf
             ELSE /\ pc'[1] = "idle"
                  /\ Len(trace') = Len(trace) + 1
                  /\ SubSeq(trace', 1, Len(trace)) = trace
                  /\ LET e == trace'[Len(trace')]
                     IN  /\ e.ev = "rwWrite"
                         /\ e.data = buf[1]
                         /\ e.out = <<e.n, e.err>>]_vars

\* After WriteHeader(200) has returned, Write of two bytes has returned the
\* transport's report: one byte written, and an error.
C20_Witness ==
    /\ Idle /\ calls = 2
    /\ Len(trace) = 3
    /\ trace[1].ev = "swapTrue" /\ trace[1].op = "WriteHeader"
    /\ trace[2].ev = "rwWriteHeader" /\ trace[2].n = 200 /\ status = 200
    /\ trace[3].ev = "rwWrite" /\ trace[3].op = "Write"
    /\ trace[3].data = <<104, 105>>
    /\ trace[3].n = 1 /\ trace[3].err /\ trace[3].out = <<1, TRUE>>

====
